---- MODULE Spec2Model ----
(***************************************************************************)
(* Construction of the Doyle-Fuller-Newman model                            *)
(* (pybamm/models/full_battery_models/lithium_ion/dfn.py).                  *)
(*                                                                          *)
(* DFN.__init__ runs a fixed program of selection steps, each of which      *)
(* writes submodels into the registry self.submodels (a dict: assignment to *)
(* a new key appends, assignment to an existing key replaces in place),     *)
(* then builds the model when build is True.  The base classes              *)
(* (BaseModel / BaseBatteryModel) are not part of the source slice: the     *)
(* steps they implement (external circuit, reactions, tortuosity, thermal,  *)
(* current collector, build_model) follow the design document.  The         *)
(* registry is written the way dfn.py writes it, by plain item assignment:  *)
(* no method of dfn.py tests whether the model has been built.              *)
(*                                                                          *)
(* Python's False for the "surface form" option is the string "False".      *)
(* Every submodel also receives self.param, which no step changes; it is    *)
(* left out of the submodel records.                                        *)
(***************************************************************************)
EXTENDS Naturals, Sequences, FiniteSets

VARIABLES
    options,       \* self.options, fixed at construction
    build,         \* the build argument of __init__
    pc,            \* index of the next step of __init__ in InitProgram
    phase,         \* "constructing" | "done"
    ran,           \* the steps of __init__ executed so far, in order
    reactions,     \* self.reactions: "unset" until set_reactions has run
    reactionsComputed, \* number of times set_reactions has run
    submodels,     \* self.submodels: sequence of entries in insertion order
    instantiated,  \* number of submodel constructors called by __init__
    built,         \* build_model has completed
    buildCount,    \* number of completed runs of build_model
    composed,      \* contributions merged by build_model, in order
    err,           \* error raised by the last operation, or "none" (no modelled
                   \* operation raises)
    lastOp,        \* the last operation and the submodel it was given
    geometry,      \* value returned by the last read of default_geometry
    userOps        \* number of caller operations after construction

vars == <<options, build, pc, phase, ran, reactions, reactionsComputed,
          submodels, instantiated, built, buildCount, composed, err, lastOp,
          geometry, userOps>>

(***************************************************************************)
(* Bounds and input domains                                                 *)
(***************************************************************************)
MaxUserOps == 2

\* The values of each option: those dfn.py branches on, and one value ("other",
\* 3) it has no branch for.  Options validation belongs to the base class and
\* is not modelled; the selection steps are run on whatever self.options holds.
ParticleOptions == {"Fickian diffusion", "fast diffusion", "other"}
SurfaceFormOptions == {"False", "differential", "algebraic", "other"}
DimensionalityOptions == {0, 1, 2, 3}
ConvectionOptions == {"none", "full"}

OptionsDomain ==
    [particle : ParticleOptions,
     surface_form : SurfaceFormOptions,
     dimensionality : DimensionalityOptions,
     convection : ConvectionOptions]

(***************************************************************************)
(* Submodels and the registry                                               *)
(***************************************************************************)
\* A submodel instance: the class constructed, its domain argument and the
\* reactions argument it was given ("not passed" when the constructor takes none).
SM(role, variant, domain, rx) ==
    [role |-> role, variant |-> variant, domain |-> domain, reactions |-> rx]

NotPassed == "not passed"
WholeCell == "whole-cell"

Roles(reg) == {reg[i].role : i \in 1..Len(reg)}

\* self.submodels[role] = sm
Put(reg, sm) ==
    IF sm.role \in Roles(reg)
    THEN [i \in 1..Len(reg) |-> IF reg[i].role = sm.role THEN sm ELSE reg[i]]
    ELSE Append(reg, sm)

RECURSIVE Apply(_, _)
Apply(reg, writes) ==
    IF writes = <<>> THEN reg
    ELSE Apply(Put(reg, Head(writes)), Tail(writes))

Entry(reg, role) == CHOOSE e \in {reg[i] : i \in 1..Len(reg)} : e.role = role

Lower(domain) ==
    CASE domain = "Negative" -> "negative"
      [] domain = "Separator" -> "separator"
      [] domain = "Positive" -> "positive"

Domains == <<"Negative", "Separator", "Positive">>

(***************************************************************************)
(* The selection steps of dfn.py: the writes each performs, in order        *)
(***************************************************************************)
set_porosity_submodel ==
    << SM("porosity", "porosity.Constant", WholeCell, NotPassed) >>

set_convection_submodel ==
    << SM("convection", "convection.NoConvection", WholeCell, NotPassed) >>

\* Variant of set_interfacial_submodel: both writes use the key "negative interface".
set_interfacial_submodel_SameKey ==
    << SM("negative interface", "interface.ButlerVolmer", "Negative", NotPassed),
       SM("negative interface", "interface.ButlerVolmer", "Positive", NotPassed) >>

set_interfacial_submodel ==
    << SM("negative interface", "interface.ButlerVolmer", "Negative", NotPassed),
       SM("positive interface", "interface.ButlerVolmer", "Positive", NotPassed) >>

set_particle_submodel(opts) ==
    IF opts.particle = "Fickian diffusion"
    THEN << SM("negative particle", "particle.FickianManyParticles", "Negative", NotPassed),
            SM("positive particle", "particle.FickianManyParticles", "Positive", NotPassed) >>
    ELSE IF opts.particle = "fast diffusion"
    THEN << SM("negative particle", "particle.FastManyParticles", "Negative", NotPassed),
            SM("positive particle", "particle.FastManyParticles", "Positive", NotPassed) >>
    ELSE << >>

set_solid_submodel(opts, rx) ==
    IF opts.surface_form = "False"
    THEN << SM("negative electrode", "electrode.ohm.Full", "Negative", rx),
            SM("positive electrode", "electrode.ohm.Full", "Positive", rx) >>
    ELSE << SM("negative electrode", "electrode.ohm.SurfaceForm", "Negative", NotPassed),
            SM("positive electrode", "electrode.ohm.SurfaceForm", "Positive", NotPassed) >>

\* for domain in ["Negative", "Separator", "Positive"]:
\*     self.submodels[domain.lower() + " electrolyte conductivity"] = cls(param, domain, reactions)
PerDomainConductivity(variant, rx) ==
    [i \in 1..Len(Domains) |->
        SM(Lower(Domains[i]) \o " electrolyte conductivity", variant, Domains[i], rx)]

\* Variant of set_electrolyte_submodel: the first branch tests the truth of the
\* option instead of "is False", so the split entries are written for False.
set_electrolyte_submodel_Truthy(opts, rx) ==
    << SM("electrolyte diffusion", "electrolyte.diffusion.Full", WholeCell, rx) >>
    \o
    (IF opts.surface_form # "False"
     THEN << SM("electrolyte conductivity", "electrolyte.conductivity.Full", WholeCell, rx) >>
     ELSE PerDomainConductivity("surface_potential_form.FullDifferential", rx))

\* Variant of set_electrolyte_submodel: the "differential" branch constructs
\* FullAlgebraic.
set_electrolyte_submodel_Algebraic(opts, rx) ==
    << SM("electrolyte diffusion", "electrolyte.diffusion.Full", WholeCell, rx) >>
    \o
    (IF opts.surface_form = "False"
     THEN << SM("electrolyte conductivity", "electrolyte.conductivity.Full", WholeCell, rx) >>
     ELSE IF opts.surface_form \in {"differential", "algebraic"}
     THEN PerDomainConductivity("surface_potential_form.FullAlgebraic", rx)
     ELSE << >>)

set_electrolyte_submodel(opts, rx) ==
    << SM("electrolyte diffusion", "electrolyte.diffusion.Full", WholeCell, rx) >>
    \o
    (IF opts.surface_form = "False"
     THEN << SM("electrolyte conductivity", "electrolyte.conductivity.Full", WholeCell, rx) >>
     ELSE IF opts.surface_form = "differential"
     THEN PerDomainConductivity("surface_potential_form.FullDifferential", rx)
     ELSE IF opts.surface_form = "algebraic"
     THEN PerDomainConductivity("surface_potential_form.FullAlgebraic", rx)
     ELSE << >>)

NoGeometry == <<"None">>

\* Variant of default_geometry: dimensionality 1 returns the geometry of 0.
default_geometry_Same(dimensionality) ==
    IF dimensionality \in {0, 1} THEN <<"1D macro", "1+1D micro">>
    ELSE IF dimensionality = 2 THEN <<"2+1D macro", "(2+1)+1D micro">>
    ELSE NoGeometry

default_geometry(dimensionality) ==
    IF dimensionality = 0 THEN <<"1D macro", "1+1D micro">>
    ELSE IF dimensionality = 1 THEN <<"1+1D macro", "(1+1)+1D micro">>
    ELSE IF dimensionality = 2 THEN <<"2+1D macro", "(2+1)+1D micro">>
    ELSE NoGeometry

(***************************************************************************)
(* The selection steps of the base classes (design document, 4.2 step 3):   *)
(* one registry role per group                                              *)
(***************************************************************************)
set_external_circuit_submodel ==
    << SM("external circuit", "external_circuit", WholeCell, NotPassed) >>

set_tortuosity_submodels ==
    << SM("tortuosity", "tortuosity", WholeCell, NotPassed) >>

set_thermal_submodel ==
    << SM("thermal", "thermal", WholeCell, NotPassed) >>

set_current_collector_submodel ==
    << SM("current collector", "current_collector", WholeCell, NotPassed) >>

\* The reactions map: computed by set_reactions, read-only afterwards.
ReactionsMap == "main"

(***************************************************************************)
(* DFN.__init__: the order of its steps                                     *)
(***************************************************************************)
\* Variants of InitProgram.
InitProgram_SolidFirst ==
    << "external circuit", "reactions", "porosity", "tortuosity", "convection",
       "interfacial", "solid", "particle", "electrolyte", "thermal",
       "current collector", "build" >>

InitProgram_ReactionsLate ==
    << "external circuit", "porosity", "tortuosity", "convection",
       "interfacial", "particle", "solid", "reactions", "electrolyte", "thermal",
       "current collector", "build" >>

InitProgram_BuildEarly ==
    << "external circuit", "reactions", "porosity", "tortuosity", "convection",
       "interfacial", "particle", "solid", "electrolyte", "thermal",
       "build", "current collector" >>

InitProgram ==
    << "external circuit", "reactions", "porosity", "tortuosity", "convection",
       "interfacial", "particle", "solid", "electrolyte", "thermal",
       "current collector", "build" >>

\* build_model: every registry entry contributes, in registry order, and the
\* result is frozen (design document, 4.2 steps 4 and 6).  The equation-level
\* checks of step 5 act on the submodels' own equations and are not modelled.
Contributions(reg, rx) ==
    [i \in 1..Len(reg) |->
        [role |-> reg[i].role, variant |-> reg[i].variant, reactions |-> rx]]

NoSubmodel == SM("", "", "", NotPassed)
Op(name, sm) == [op |-> name, sm |-> sm]

Init ==
    /\ options \in OptionsDomain
    /\ build \in BOOLEAN
    /\ pc = 1
    /\ phase = "constructing"
    /\ ran = << >>
    /\ reactions = "unset"
    /\ reactionsComputed = 0
    /\ submodels = << >>
    /\ instantiated = 0
    /\ built = FALSE
    /\ buildCount = 0
    /\ composed = << >>
    /\ err = "none"
    /\ lastOp = Op("construct", NoSubmodel)
    /\ geometry = << >>
    /\ userOps = 0

AtStep(name) ==
    /\ phase = "constructing"
    /\ pc <= Len(InitProgram)
    /\ InitProgram[pc] = name

Advance(name) ==
    /\ pc' = pc + 1
    /\ ran' = Append(ran, name)
    /\ phase' = IF pc + 1 > Len(InitProgram) THEN "done" ELSE "constructing"

\* A selection step of __init__: its writes go into the registry.
Select(name, writes) ==
    /\ AtStep(name)
    /\ Advance(name)
    /\ submodels' = Apply(submodels, writes)
    /\ instantiated' = instantiated + Len(writes)
    /\ err' = "none"
    /\ UNCHANGED <<options, build, reactions, reactionsComputed, built,
                   buildCount, composed, lastOp, geometry, userOps>>

ExternalCircuitStep == Select("external circuit", set_external_circuit_submodel)
PorosityStep == Select("porosity", set_porosity_submodel)
TortuosityStep == Select("tortuosity", set_tortuosity_submodels)
ConvectionStep == Select("convection", set_convection_submodel)
InterfacialStep == Select("interfacial", set_interfacial_submodel)
ParticleStep == Select("particle", set_particle_submodel(options))
SolidStep == Select("solid", set_solid_submodel(options, reactions))
ElectrolyteStep == Select("electrolyte", set_electrolyte_submodel(options, reactions))
ThermalStep == Select("thermal", set_thermal_submodel)
CurrentCollectorStep == Select("current collector", set_current_collector_submodel)

ReactionsStep ==
    /\ AtStep("reactions")
    /\ Advance("reactions")
    /\ reactions' = ReactionsMap
    /\ reactionsComputed' = reactionsComputed + 1
    /\ UNCHANGED <<options, build, submodels, instantiated, built, buildCount,
                   composed, err, lastOp, geometry, userOps>>

\* if build: self.build_model()
BuildStep ==
    /\ AtStep("build")
    /\ Advance("build")
    /\ IF build
       THEN /\ built' = TRUE
            /\ buildCount' = buildCount + 1
            /\ composed' = Contributions(submodels, reactions)
       ELSE UNCHANGED <<built, buildCount, composed>>
    /\ UNCHANGED <<options, build, reactions, reactionsComputed, submodels,
                   instantiated, err, lastOp, geometry, userOps>>

(***************************************************************************)
(* Operations of a caller on a constructed model                            *)
(***************************************************************************)
\* The submodels a caller may put into the registry: replacements of roles
\* the constructor wrote, and one new role.
UserSubmodels ==
    { SM("negative particle", "particle.FastManyParticles", "Negative", NotPassed),
      SM("positive particle", "particle.FickianManyParticles", "Positive", NotPassed),
      SM("electrolyte conductivity", "electrolyte.conductivity.Full", WholeCell, reactions),
      SM("user submodel", "user", WholeCell, NotPassed) }

\* model.submodels[role] = sm: the item assignment the set_* methods use.
SetSubmodel ==
    /\ phase = "done"
    /\ userOps < MaxUserOps
    /\ \E sm \in UserSubmodels :
        /\ lastOp' = Op("set", sm)
        /\ submodels' = Put(submodels, sm)
    /\ err' = "none"
    /\ userOps' = userOps + 1
    /\ UNCHANGED <<options, build, pc, phase, ran, reactions, reactionsComputed,
                   instantiated, built, buildCount, composed, geometry>>

\* The public selection methods of dfn.py, called again on a constructed
\* model: model.set_particle_submodel() and the like.  Each performs its
\* writes whether or not the model has been built.
SelectionMethods ==
    {"porosity", "convection", "interfacial", "particle", "solid", "electrolyte"}

WritesOf(method) ==
    CASE method = "porosity" -> set_porosity_submodel
      [] method = "convection" -> set_convection_submodel
      [] method = "interfacial" -> set_interfacial_submodel
      [] method = "particle" -> set_particle_submodel(options)
      [] method = "solid" -> set_solid_submodel(options, reactions)
      [] method = "electrolyte" -> set_electrolyte_submodel(options, reactions)

CallSelection ==
    /\ phase = "done"
    /\ userOps < MaxUserOps
    /\ \E method \in SelectionMethods :
        /\ lastOp' = Op("select", SM(method, "", "", NotPassed))
        /\ submodels' = Apply(submodels, WritesOf(method))
    /\ err' = "none"
    /\ userOps' = userOps + 1
    /\ UNCHANGED <<options, build, pc, phase, ran, reactions, reactionsComputed,
                   instantiated, built, buildCount, composed, geometry>>

\* model.build_model() on a model constructed with build=False.  A second
\* build_model is outside the model: neither dfn.py nor the design document
\* says what it does.
BuildModel ==
    /\ phase = "done"
    /\ userOps < MaxUserOps
    /\ ~built
    /\ lastOp' = Op("build", NoSubmodel)
    /\ err' = "none"
    /\ built' = TRUE
    /\ buildCount' = buildCount + 1
    /\ composed' = Contributions(submodels, reactions)
    /\ userOps' = userOps + 1
    /\ UNCHANGED <<options, build, pc, phase, ran, reactions, reactionsComputed,
                   submodels, instantiated, geometry>>

\* model.default_geometry
ReadDefaultGeometry ==
    /\ phase = "done"
    /\ userOps < MaxUserOps
    /\ geometry' = default_geometry(options.dimensionality)
    /\ lastOp' = Op("geometry", NoSubmodel)
    /\ err' = "none"
    /\ userOps' = userOps + 1
    /\ UNCHANGED <<options, build, pc, phase, ran, reactions, reactionsComputed,
                   submodels, instantiated, built, buildCount, composed>>

Next ==
    \/ ExternalCircuitStep
    \/ ReactionsStep
    \/ PorosityStep
    \/ TortuosityStep
    \/ ConvectionStep
    \/ InterfacialStep
    \/ ParticleStep
    \/ SolidStep
    \/ ElectrolyteStep
    \/ ThermalStep
    \/ CurrentCollectorStep
    \/ BuildStep
    \/ SetSubmodel
    \/ CallSelection
    \/ BuildModel
    \/ ReadDefaultGeometry

Spec == Init /\ [][Next]_vars

(***************************************************************************)
(* Vocabulary of the properties                                             *)
(***************************************************************************)
CanonicalGroups ==
    << "external circuit", "porosity", "tortuosity", "convection", "interfacial",
       "particle", "solid", "electrolyte", "thermal", "current collector" >>

PerDomainRoles ==
    {"negative electrolyte conductivity", "separator electrolyte conductivity",
     "positive electrolyte conductivity"}

ConductivityRoles == PerDomainRoles \cup {"electrolyte conductivity"}

\* The group of the canonical order a role belongs to.
GroupOf(role) ==
    CASE role = "external circuit" -> 1
      [] role = "porosity" -> 2
      [] role = "tortuosity" -> 3
      [] role = "convection" -> 4
      [] role \in {"negative interface", "positive interface"} -> 5
      [] role \in {"negative particle", "positive particle"} -> 6
      [] role \in {"negative electrode", "positive electrode"} -> 7
      [] role \in ConductivityRoles \cup {"electrolyte diffusion"} -> 8
      [] role = "thermal" -> 9
      [] role = "current collector" -> 10

SelectionSteps(steps) == SelectSeq(steps, LAMBDA x : x \notin {"reactions", "build"})

RanSet == {ran[i] : i \in 1..Len(ran)}
AllSelectionRan == {CanonicalGroups[i] : i \in 1..Len(CanonicalGroups)} \subseteq RanSet

Count(reg, role) == Cardinality({i \in 1..Len(reg) : reg[i].role = role})

TakesReactions(variant) ==
    variant \in {"electrode.ohm.Full", "electrolyte.diffusion.Full",
                 "electrolyte.conductivity.Full",
                 "surface_potential_form.FullDifferential",
                 "surface_potential_form.FullAlgebraic"}

Constructed == phase = "done" /\ userOps = 0

ParticleKnown == options.particle \in {"Fickian diffusion", "fast diffusion"}
SurfaceFormKnown == options.surface_form \in {"False", "differential", "algebraic"}

(***************************************************************************)
(* C1: while the constructor populates the registry, and when it has        *)
(* finished, no role of a later canonical group stands before a role of an  *)
(* earlier group, and for every options value the selection steps have run  *)
(* in the one canonical order.                                              *)
(***************************************************************************)
C1_CanonicalOrder ==
    userOps = 0 =>
        /\ \A i, j \in 1..Len(submodels) :
              i < j => GroupOf(submodels[i].role) <= GroupOf(submodels[j].role)
        /\ phase = "done" => SelectionSteps(ran) = CanonicalGroups

C1_Witness ==
    /\ Constructed
    /\ options.surface_form = "differential"
    /\ options.particle = "fast diffusion"
    /\ Len(submodels) = 16

(***************************************************************************)
(* C2: set_reactions runs at most once; every registry entry whose          *)
(* constructor takes the reactions map was given the map set_reactions      *)
(* computed (never the unset attribute), and every contribution build_model *)
(* invoked saw that map.                                                    *)
(***************************************************************************)
C2_ReactionsFirst ==
    /\ reactionsComputed <= 1
    /\ \A i \in 1..Len(submodels) :
          TakesReactions(submodels[i].variant) =>
              /\ reactionsComputed = 1
              /\ reactions = ReactionsMap
              /\ submodels[i].reactions = reactions
    /\ \A i \in 1..Len(composed) :
          reactionsComputed = 1 /\ composed[i].reactions = ReactionsMap

C2_Witness ==
    /\ built
    /\ userOps = 0
    /\ Len(composed) = 14
    /\ \E i \in 1..Len(submodels) : submodels[i].variant = "electrode.ohm.Full"
    /\ \E i \in 1..Len(submodels) : submodels[i].variant = "electrolyte.conductivity.Full"

(***************************************************************************)
(* C3: once the model is built (by the constructor with build=True, or by a *)
(* later build_model), no step changes the registry or the composed model,  *)
(* and every attempt to write a registry entry, by item assignment or by a  *)
(* selection method, raises ImmutableModelError.                            *)
(***************************************************************************)
ModelBuilt == built \/ (phase = "done" /\ build)

C3_Frozen ==
    [][ModelBuilt =>
          /\ submodels' = submodels
          /\ composed' = composed
          /\ (userOps' # userOps /\ lastOp'.op \in {"set", "select"})
                => err' = "ImmutableModelError"]_vars

\* The part of C3 that no operation contradicts: the composed model itself is
\* never written after the build that produced it.
ComposedModelKept == [][built => composed' = composed]_vars

(***************************************************************************)
(* C4: with particle = "Fickian diffusion", surface form = False,           *)
(* dimensionality = 0, convection = "none" the constructed registry (and    *)
(* the composed model, when built) holds exactly one negative and one       *)
(* positive particle entry, both Fickian, exactly one electrolyte           *)
(* conductivity entry, of the Full variant, and no per-domain conductivity  *)
(* entry; per-domain entries occur only when surface form is not False.     *)
(***************************************************************************)
C4_Options ==
    /\ options.particle = "Fickian diffusion"
    /\ options.surface_form = "False"
    /\ options.dimensionality = 0
    /\ options.convection = "none"

C4_In(reg) ==
    /\ Count(reg, "negative particle") = 1
    /\ Count(reg, "positive particle") = 1
    /\ \A i \in 1..Len(reg) :
          /\ reg[i].role \in {"negative particle", "positive particle"}
                => reg[i].variant = "particle.FickianManyParticles"
          /\ reg[i].role \in ConductivityRoles
                => /\ reg[i].role = "electrolyte conductivity"
                   /\ reg[i].variant = "electrolyte.conductivity.Full"
    /\ Count(reg, "electrolyte conductivity") = 1

C4_FickianNoSurfaceForm ==
    Constructed =>
        /\ C4_Options => C4_In(submodels) /\ (built => C4_In(composed))
        /\ Roles(submodels) \cap PerDomainRoles # {} => options.surface_form # "False"

C4_Witness == Constructed /\ C4_Options /\ built /\ Len(composed) = 14

(***************************************************************************)
(* C5: with surface form = "differential" the constructed registry holds    *)
(* exactly three electrolyte conductivity entries, one for each of the      *)
(* negative, separator and positive domains, each FullDifferential, and no  *)
(* whole-cell "electrolyte conductivity" entry.                             *)
(***************************************************************************)
C5_Differential ==
    (Constructed /\ options.surface_form = "differential") =>
        /\ Cardinality({i \in 1..Len(submodels) :
                           submodels[i].role \in ConductivityRoles}) = 3
        /\ "electrolyte conductivity" \notin Roles(submodels)
        /\ \A k \in 1..Len(Domains) :
              \E i \in 1..Len(submodels) :
                 /\ submodels[i].role = Lower(Domains[k]) \o " electrolyte conductivity"
                 /\ submodels[i].domain = Domains[k]
                 /\ submodels[i].variant = "surface_potential_form.FullDifferential"

C5_Witness ==
    /\ Constructed
    /\ options.surface_form = "differential"
    /\ PerDomainRoles \subseteq Roles(submodels)

(***************************************************************************)
(* C6: construction never completes for an option value without a           *)
(* constructor: a completed construction has recognised particle and        *)
(* surface form values, both particle roles and an electrolyte conductivity *)
(* role.                                                                    *)
(***************************************************************************)
C6_UnknownVariantIsFatal ==
    phase = "done" =>
        /\ ParticleKnown /\ SurfaceFormKnown
        /\ {"negative particle", "positive particle"} \subseteq Roles(submodels)
        /\ Roles(submodels) \cap ConductivityRoles # {}

(***************************************************************************)
(* C7: the constructor's writes never hit an existing key: the registry has *)
(* as many entries as submodels were instantiated, under pairwise distinct  *)
(* role names.                                                              *)
(***************************************************************************)
C7_UniqueRoles ==
    userOps = 0 =>
        /\ Len(submodels) = instantiated
        /\ \A i, j \in 1..Len(submodels) :
              i # j => submodels[i].role # submodels[j].role

C7_Witness == Constructed /\ instantiated = 16 /\ Len(submodels) = 16

(***************************************************************************)
(* C8: build_model completes at most once, and only after every selection   *)
(* step has run; construction ends built exactly when build is True; with   *)
(* build=False it ends unbuilt with every group's step run (every canonical *)
(* group present when the option values have constructors), and setting an  *)
(* entry of an unbuilt model succeeds.                                      *)
(***************************************************************************)
GroupsPresent == {GroupOf(submodels[i].role) : i \in 1..Len(submodels)}

C8_BuildLast ==
    /\ buildCount <= 1
    /\ built => AllSelectionRan /\ buildCount = 1
    /\ Constructed =>
          /\ AllSelectionRan
          /\ built <=> build
          /\ buildCount = (IF build THEN 1 ELSE 0)
          /\ build => composed = Contributions(submodels, reactions)
          /\ ~build => composed = << >>
          /\ (ParticleKnown /\ SurfaceFormKnown)
                => GroupsPresent = 1..Len(CanonicalGroups)
    /\ (lastOp.op = "set" /\ ~built) =>
          /\ err = "none"
          /\ lastOp.sm.role \in Roles(submodels)
          /\ Entry(submodels, lastOp.sm.role) = lastOp.sm

C8_Witness ==
    /\ phase = "done"
    /\ ~build
    /\ ~built
    /\ lastOp.op = "set"
    /\ lastOp.sm.variant = "particle.FastManyParticles"
    /\ options.particle = "Fickian diffusion"
    /\ Entry(submodels, "negative particle").variant = "particle.FastManyParticles"

(***************************************************************************)
(* C9: in every constructed registry the electrode roles are SurfaceForm    *)
(* exactly when the three per-domain conductivity roles are present, and    *)
(* Full exactly when the single "electrolyte conductivity" role is present; *)
(* "electrolyte diffusion" is always present.                               *)
(***************************************************************************)
ElectrodesAre(variant) ==
    /\ {"negative electrode", "positive electrode"} \subseteq Roles(submodels)
    /\ Entry(submodels, "negative electrode").variant = variant
    /\ Entry(submodels, "positive electrode").variant = variant

C9_SurfaceFormAgreement ==
    Constructed =>
        /\ ElectrodesAre("electrode.ohm.SurfaceForm")
              <=> PerDomainRoles \subseteq Roles(submodels)
        /\ ElectrodesAre("electrode.ohm.Full")
              <=> "electrolyte conductivity" \in Roles(submodels)
        /\ "electrolyte diffusion" \in Roles(submodels)

\* The agreement restricted to the surface form values that have a constructor.
SurfaceFormAgreementWhenKnown == SurfaceFormKnown => C9_SurfaceFormAgreement

(***************************************************************************)
(* C10: a read of default_geometry returns, for dimensionality 0, 1, 2, the *)
(* geometry named for that dimensionality whatever the other options are,   *)
(* the three geometries differ pairwise, and the read changes neither the   *)
(* options nor the registry.                                                *)
(***************************************************************************)
ExpectedGeometry(d) ==
    CASE d = 0 -> <<"1D macro", "1+1D micro">>
      [] d = 1 -> <<"1+1D macro", "(1+1)+1D micro">>
      [] d = 2 -> <<"2+1D macro", "(2+1)+1D micro">>

GeometryRead ==
    (lastOp.op = "geometry" /\ options.dimensionality \in 0..2) =>
        /\ geometry = ExpectedGeometry(options.dimensionality)
        /\ \A d \in (0..2) \ {options.dimensionality} :
              default_geometry(d) # geometry /\ default_geometry(d) # NoGeometry

C10_DefaultGeometry ==
    /\ []GeometryRead
    /\ [][(userOps' # userOps /\ lastOp'.op = "geometry")
             => options' = options /\ submodels' = submodels]_vars

C10_Witness ==
    /\ lastOp.op = "geometry"
    /\ options.dimensionality = 2
    /\ options.particle = "fast diffusion"
    /\ geometry = <<"2+1D macro", "(2+1)+1D micro">>
    /\ Len(submodels) >= 14

====
